---- MODULE Spec2Model ----
(***************************************************************************)
(* Model of the pipeline orchestration layer of dove-eye                   *)
(* (class Application, src/unnamed/part_002): discovery of camera          *)
(* providers, assembly and teardown of the Controller/Converter pipeline,  *)
(* the canonical calibration data, and the Qt event delivery the           *)
(* handlers rely on.                                                       *)
(*                                                                         *)
(* assert() is modelled as active: a failed assertion aborts the process   *)
(* at that statement (aborted = TRUE, no later statement of the handler    *)
(* runs, no later action is taken).                                        *)
(***************************************************************************)
EXTENDS Integers, Sequences, FiniteSets, TLC

(* ---------------------------------------------------------------- bounds *)

\* Frameset::kMaxArity (dove_eye/frameset.h is not among the sources; the
\* value is the one the specification's discovery scenario uses).
kMaxArity == 4


\* Devices that may work in the lifecycle specification: 0..MaxDevices-1.
MaxDevices == 2

\* Length of the list handed to Initialize: up to one entry per device.
MaxChosen == MaxDevices

\* Pipelines assembled in one behaviour.
MaxPipelines == 1

\* Calls of AvailableVideoProviders in one behaviour: one before each
\* pipeline and one after the last.
MaxGen == MaxPipelines + 1

\* Pending events of one object.
MaxQueue == 1

(* ------------------------------------------------------------ the state *)

VARIABLES
  available_providers_,  \* vector<unique_ptr<VideoProvider>>: provider or NullPtr
  arity_,                \* CameraIndex
  controller_,           \* Controller*  (object id, NULL = 0)
  converter_,            \* FramesetConverter* (object id, NULL = 0)
  calibration_data_,     \* unique_ptr<CalibrationData>: NoCal or a value
  threads_,              \* QList<QThread*>
  objects_in_threads_,   \* QList<QObject*>
  objects,               \* the heap: Controllers and Converters ever constructed
  connections,           \* Qt connections <<sender, signal, receiver>>
  queue,                 \* per object: events posted to it and not yet processed
  aborted,               \* an assertion failed: the process is gone
  single_threaded,       \* the build: CONFIG_SINGLE_THREADED defined or not
  gen,                   \* number of discoveries so far (names provider objects)
  last,                  \* the last call: operation, arguments, steps it took
  workers,               \* per object: state of the QThread started for it
  main_queue,            \* events posted to the Application and not yet processed
  trk                    \* the TemplateTracker under test: inputs, data_, result

vars == <<available_providers_, arity_, controller_, converter_,
          calibration_data_, threads_, objects_in_threads_, objects,
          connections, queue, aborted, single_threaded, gen, last,
          workers, main_queue, trk>>

NULL == 0
App == 0
MainThread == 0
NullPtr == <<0, 0>>
NoCal == [arity |-> 0, id |-> 0]

\* A TemplateTracker on which nothing has been called yet.
NoTracker == [op |-> "none"]

\* A provider object is named by the discovery that allocated it and its device.
Ptr(g, device) == <<g, device>>

\* The program state the handlers read and write, as one record.
Cur ==
  [available_providers_ |-> available_providers_, arity_ |-> arity_,
   controller_ |-> controller_, converter_ |-> converter_,
   calibration_data_ |-> calibration_data_, threads_ |-> threads_,
   objects_in_threads_ |-> objects_in_threads_, objects |-> objects,
   connections |-> connections, queue |-> queue, aborted |-> aborted,
   workers |-> workers, main_queue |-> main_queue, steps |-> <<>>]

Store(s) ==
  /\ available_providers_' = s.available_providers_
  /\ arity_' = s.arity_
  /\ controller_' = s.controller_
  /\ converter_' = s.converter_
  /\ calibration_data_' = s.calibration_data_
  /\ threads_' = s.threads_
  /\ objects_in_threads_' = s.objects_in_threads_
  /\ objects' = s.objects
  /\ connections' = s.connections
  /\ queue' = s.queue
  /\ aborted' = s.aborted
  /\ workers' = s.workers
  /\ main_queue' = s.main_queue

Step(s, what) == [s EXCEPT !.steps = Append(@, what)]

\* assert(cond): a failed assertion aborts at this statement.
AssertFailed(s, what) == [Step(s, what) EXCEPT !.aborted = TRUE]

Call(op) ==
  [op |-> op, ok |-> TRUE, steps |-> <<>>, chosen |-> <<>>, avail |-> {},
   found |-> <<>>, probed |-> 0, cal |-> NoCal, sender |-> NULL,
   receivers |-> {}, event |-> ""]

Event(type, cal) == [type |-> type, cal |-> cal]

(* ------------------------------------------------------------ discovery *)

skip == kMaxArity
tests == 2 * kMaxArity

\* ProbeLoop with the error counter reset by every working device.
RECURSIVE ProbeLoop_Consecutive(_, _, _, _)
ProbeLoop_Consecutive(avail, device, errors, found) ==
  IF device \in avail
  THEN IF device + 1 >= tests
       THEN [found |-> Append(found, device), probed |-> device + 1,
             errors |-> 0]
       ELSE ProbeLoop_Consecutive(avail, device + 1, 0,
                                  Append(found, device))
  ELSE IF errors + 1 >= skip
       THEN [found |-> found, probed |-> device + 1, errors |-> errors + 1]
       ELSE IF device + 1 >= tests
            THEN [found |-> found, probed |-> device + 1,
                  errors |-> errors + 1]
            ELSE ProbeLoop_Consecutive(avail, device + 1, errors + 1, found)

\* ProbeLoop that stops one failure late (errors > skip).
RECURSIVE ProbeLoop_OneMore(_, _, _, _)
ProbeLoop_OneMore(avail, device, errors, found) ==
  IF device \in avail
  THEN IF device + 1 >= tests
       THEN [found |-> Append(found, device), probed |-> device + 1,
             errors |-> errors]
       ELSE ProbeLoop_OneMore(avail, device + 1, errors,
                              Append(found, device))
  ELSE IF errors + 1 > skip
       THEN [found |-> found, probed |-> device + 1, errors |-> errors + 1]
       ELSE IF device + 1 >= tests
            THEN [found |-> found, probed |-> device + 1,
                  errors |-> errors + 1]
            ELSE ProbeLoop_OneMore(avail, device + 1, errors + 1, found)

\* The probing loop of AvailableVideoProviders: device and errors are the
\* loop's counters, found the devices pushed to available_providers_ so far.
RECURSIVE ProbeLoop(_, _, _, _)
ProbeLoop(avail, device, errors, found) ==
  IF device \in avail
  THEN IF device + 1 >= tests
       THEN [found |-> Append(found, device), probed |-> device + 1,
             errors |-> errors]
       ELSE ProbeLoop(avail, device + 1, errors, Append(found, device))
  ELSE IF errors + 1 >= skip
       THEN [found |-> found, probed |-> device + 1, errors |-> errors + 1]
       ELSE IF device + 1 >= tests
            THEN [found |-> found, probed |-> device + 1,
                  errors |-> errors + 1]
            ELSE ProbeLoop(avail, device + 1, errors + 1, found)

(* ------------------------------------------------- objects and threads *)

Controller(a, providers) ==
  [kind |-> "Controller", arity |-> a, providers |-> providers,
   started |-> FALSE, thread |-> MainThread, life |-> "alive",
   calib |-> NoCal]

FramesetConverter(a) ==
  [kind |-> "Converter", arity |-> a, providers |-> <<>>,
   started |-> FALSE, thread |-> MainThread, life |-> "alive",
   calib |-> NoCal]

\* new T(...): the object gets the next id and an empty event queue.
New(s, obj) ==
  [s EXCEPT !.objects = Append(@, obj), !.queue = Append(@, <<>>),
            !.workers = Append(@, "none")]

Connect(s, sender, signal, receiver) ==
  [Step(s, <<"connect", signal>>) EXCEPT
     !.connections = @ \cup {<<sender, signal, receiver>>}]

Post(s, o, ev) == [s EXCEPT !.queue[o] = Append(@, ev)]

\* QObject::deleteLater(): a DeferredDelete event for the object's own thread.
DeleteLater(s, o) ==
  LET s1 == Step(s, <<"deleteLater", s.objects[o].kind>>)
  IN  IF s.objects[o].life = "alive"
      THEN [Post(s1, o, Event("DeferredDelete", NoCal)) EXCEPT
              !.objects[o].life = "deleteLater"]
      ELSE s1

\* Application::MoveToThread
MoveToThread(s, o, thread) ==
  IF single_threaded
  THEN s
  ELSE [Step(s, <<"moveToThread", s.objects[o].kind>>) EXCEPT
          !.objects[o].thread = thread,
          !.objects_in_threads_ = Append(@, o)]

\* Application::MoveToNewThread: the new QThread is named after its object.
MoveToNewThread(s, o) ==
  IF single_threaded
  THEN s
  ELSE LET s1 == MoveToThread(s, o, o)
       IN  [Step(s1, <<"thread start", s.objects[o].kind>>) EXCEPT
              !.workers[o] = "running",
              !.threads_ = Append(@, o)]

\* Application::SwapAndDestroy(&field, new_object): the replacement takes the
\* field and its worker, then the old object is marked for deferred
\* destruction.
SwapAndDestroy(s, field, new_object) ==
  LET old == s[field]
      s1  == [Step(s, <<"swap", field>>) EXCEPT ![field] = new_object]
      s2  == IF new_object # NULL THEN MoveToNewThread(s1, new_object) ELSE s1
  IN  IF old # NULL THEN DeleteLater(s2, old) ELSE s2

\* Application::TeardownController
TeardownController(s) == SwapAndDestroy(s, "controller_", NULL)

\* Application::TeardownConverter
TeardownConverter(s) == SwapAndDestroy(s, "converter_", NULL)

\* InitializeEmpty that leaves the Controller in place.
InitializeEmpty_KeepController(s) ==
  LET s1 == [Step(s, <<"available_providers_.clear">>) EXCEPT
               !.available_providers_ = <<>>]
      s2 == [s1 EXCEPT !.arity_ = 0]
      s3 == TeardownConverter(s2)
  IN  Step(s3, <<"emit", "SetupPipeline">>)

\* Application::InitializeEmpty
InitializeEmpty(s) ==
  LET s1 == [Step(s, <<"available_providers_.clear">>) EXCEPT
               !.available_providers_ = <<>>]
      s2 == [s1 EXCEPT !.arity_ = 0]
      s3 == TeardownConverter(s2)
      s4 == TeardownController(s3)
  IN  Step(s4, <<"emit", "SetupPipeline">>)

\* Application::AvailableVideoProviders, device d working iff d \in avail;
\* g names the provider objects this call allocates.
AvailableVideoProvidersOp(s, avail, g) ==
  LET s1 == InitializeEmpty(s)
      r  == ProbeLoop(avail, 0, 0, <<>>)
  IN  IF Len(s1.available_providers_) # 0
      THEN AssertFailed(s1, <<"assert", "available_providers_.size() == 0">>)
      ELSE [s1 EXCEPT !.available_providers_ =
              @ \o [i \in 1..Len(r.found) |-> Ptr(g, r.found[i])]]

(* -------------------------------------------------------------- assembly *)

\* Index of the first slot of the pool holding provider, 0 when none does.
FindOwner(pool, provider) ==
  IF \E k \in 1..Len(pool) : pool[k] = provider
  THEN CHOOSE k \in 1..Len(pool) :
         /\ pool[k] = provider
         /\ \A j \in 1..(k - 1) : pool[j] # provider
  ELSE 0

\* ReleaseChosen without the assertion: a provider no slot holds is taken
\* all the same.
RECURSIVE ReleaseChosen_NoAssert(_, _, _, _)
ReleaseChosen_NoAssert(s, providers, i, used) ==
  IF i > Len(providers)
  THEN [st |-> s, used |-> used]
  ELSE LET k == FindOwner(s.available_providers_, providers[i])
       IN  IF k = 0
           THEN ReleaseChosen_NoAssert(s, providers, i + 1,
                                       Append(used, providers[i]))
           ELSE ReleaseChosen_NoAssert(
                  [s EXCEPT !.available_providers_[k] = NullPtr],
                  providers, i + 1, Append(used, providers[i]))

\* The loop of Initialize over providers[i..]: releases each chosen provider
\* from its slot of available_providers_ and collects it in used_providers.
RECURSIVE ReleaseChosen(_, _, _, _)
ReleaseChosen(s, providers, i, used) ==
  IF i > Len(providers)
  THEN [st |-> s, used |-> used]
  ELSE LET k == FindOwner(s.available_providers_, providers[i])
       IN  IF k = 0
           THEN [st |-> AssertFailed(s, <<"assert", "released">>),
                 used |-> used]
           ELSE ReleaseChosen(
                  [s EXCEPT !.available_providers_[k] = NullPtr],
                  providers, i + 1, Append(used, providers[i]))

\* Application::SetupController
SetupController(s, providers) ==
  IF Len(providers) = 0
  THEN AssertFailed(s, <<"assert", "providers.size() > 0">>)
  ELSE LET s1 == Step(New(s, Controller(s.arity_, providers)),
                      <<"new", "Controller">>)
           c  == Len(s1.objects)
           s2 == Connect(s1, c, "Controller::CalibrationDataReady", App)
           s3 == Connect(s2, App, "Application::CalibrationDataReady", c)
       IN  SwapAndDestroy(s3, "controller_", c)

\* Application::SetupConverter
SetupConverter(s) ==
  IF s.controller_ = NULL
  THEN AssertFailed(s, <<"assert", "controller_">>)
  ELSE LET s1 == Step(New(s, FramesetConverter(s.arity_)),
                      <<"new", "FramesetConverter">>)
           s2 == SwapAndDestroy(s1, "converter_", Len(s1.objects))
           s3 == Connect(s2, s2.controller_, "FramesetReady", s2.converter_)
           s4 == Connect(s3, s3.controller_, "PositsetReady", s3.converter_)
       IN  Connect(s4, s4.converter_, "MarkCreated", s4.controller_)

\* Controller::Start(bool): the frame loop begins.
ControllerStart(s, c) ==
  [Step(s, <<"Controller::Start">>) EXCEPT !.objects[c].started = TRUE]

\* QMetaObject::invokeMethod(controller_, "Start", ...) with the default
\* Qt::AutoConnection, called on the main thread: a direct call when the
\* receiver lives on the caller's thread, a posted event otherwise.
InvokeStart(s, c) ==
  LET s1 == Step(s, <<"invokeMethod", "Start">>)
  IN  IF s.objects[c].thread = MainThread
      THEN ControllerStart(s1, c)
      ELSE Post(s1, c, Event("Start", NoCal))

\* Initialize that requests the start before the Converter is set up.
Initialize_StartFirst(s, providers) ==
  LET r  == ReleaseChosen(s, providers, 1, <<>>)
      s1 == [r.st EXCEPT !.available_providers_ = <<>>]
      s2 == [s1 EXCEPT !.arity_ = Len(r.used)]
      s3 == SetupController(s2, r.used)
      s4 == SetupConverter(InvokeStart(s3, s3.controller_))
  IN  IF r.st.aborted THEN r.st
      ELSE IF s3.aborted THEN s3
      ELSE IF s4.aborted THEN s4
      ELSE Step(s4, <<"emit", "SetupPipeline">>)

\* Initialize that keeps the providers it was not given in the pool.
Initialize_NoClear(s, providers) ==
  LET r  == ReleaseChosen(s, providers, 1, <<>>)
      s2 == [r.st EXCEPT !.arity_ = Len(r.used)]
      s3 == SetupController(s2, r.used)
      s4 == SetupConverter(s3)
      s5 == Step(s4, <<"emit", "SetupPipeline">>)
  IN  IF r.st.aborted THEN r.st
      ELSE IF s3.aborted THEN s3
      ELSE IF s4.aborted THEN s4
      ELSE InvokeStart(s5, s5.controller_)

\* Application::Initialize
Initialize(s, providers) ==
  LET r  == ReleaseChosen(s, providers, 1, <<>>)
      s1 == [r.st EXCEPT !.available_providers_ = <<>>]
      s2 == [s1 EXCEPT !.arity_ = Len(r.used)]
      s3 == SetupController(s2, r.used)
      s4 == SetupConverter(s3)
      s5 == Step(s4, <<"emit", "SetupPipeline">>)
  IN  IF r.st.aborted THEN r.st
      ELSE IF s3.aborted THEN s3
      ELSE IF s4.aborted THEN s4
      ELSE InvokeStart(s5, s5.controller_)

(* ----------------------------------------------------------- calibration *)

\* Controller::Arity()
Arity(s, c) == s.objects[c].arity

\* Controller::SetCalibrationData: the Controller keeps its own copy.
ControllerSetCalibrationData(s, c, data) ==
  [s EXCEPT !.objects[c].calib = data]

\* emit Application::CalibrationDataReady(data): every connected slot is
\* called directly when its object lives on the main thread and through a
\* posted event otherwise.
EmitCalibrationDataReady(s, data) ==
  LET rcv == {r \in 1..Len(s.objects) :
                <<App, "Application::CalibrationDataReady", r>>
                  \in s.connections}
      s1  == Step(s, <<"emit", "CalibrationDataReady">>)
  IN  [s1 EXCEPT
         !.objects = [o \in 1..Len(s.objects) |->
            IF o \in rcv /\ s.objects[o].thread = MainThread
            THEN [s.objects[o] EXCEPT !.calib = data]
            ELSE s.objects[o]],
         !.queue = [o \in 1..Len(s.objects) |->
            IF o \in rcv /\ s.objects[o].thread # MainThread
            THEN Append(s.queue[o], Event("SetCalibrationData", data))
            ELSE s.queue[o]]]

\* SetCalibrationData without the arity assertion.
SetCalibrationData_NoArityCheck(s, data) ==
  IF s.controller_ = NULL
  THEN AssertFailed(s, <<"assert", "controller_">>)
  ELSE EmitCalibrationDataReady([s EXCEPT !.calibration_data_ = data], data)

\* SetCalibrationData that broadcasts the value without storing it.
SetCalibrationData_NoStore(s, data) ==
  IF s.controller_ = NULL
  THEN AssertFailed(s, <<"assert", "controller_">>)
  ELSE IF Arity(s, s.controller_) # data.arity
  THEN AssertFailed(s, <<"assert", "controller_->Arity() == data.Arity()">>)
  ELSE EmitCalibrationDataReady(s, data)

\* Application::SetCalibrationData
SetCalibrationData(s, data) ==
  IF s.controller_ = NULL
  THEN AssertFailed(s, <<"assert", "controller_">>)
  ELSE IF Arity(s, s.controller_) # data.arity
  THEN AssertFailed(s, <<"assert", "controller_->Arity() == data.Arity()">>)
  ELSE EmitCalibrationDataReady([s EXCEPT !.calibration_data_ = data], data)

(* ------------------------------------------------------- event delivery *)

\* The object is destroyed: its providers go with it, Qt drops its
\* connections and its pending events.
Destroy(s, o) ==
  [Step(s, <<"delete", s.objects[o].kind>>) EXCEPT
     !.objects[o].life = "destroyed",
     !.objects[o].providers = <<>>,
     !.objects[o].started = FALSE,
     !.objects[o].calib = NoCal,
     !.queue[o] = <<>>,
     !.connections = {c \in @ : c[1] # o /\ c[3] # o}]

\* The event loop of o's thread takes the next event posted to o.
Deliver(s, o) ==
  LET ev == Head(s.queue[o])
      s1 == [s EXCEPT !.queue[o] = Tail(@)]
  IN  CASE ev.type = "Start" -> ControllerStart(s1, o)
        [] ev.type = "SetCalibrationData" ->
             ControllerSetCalibrationData(s1, o, ev.cal)
        [] ev.type = "DeferredDelete" -> Destroy(s1, o)

(* -------------------------------------------------------------- actions *)

\* Application::Application
Init ==
  /\ available_providers_ = <<>>
  /\ arity_ = 0
  /\ controller_ = NULL
  /\ converter_ = NULL
  /\ calibration_data_ = NoCal
  /\ threads_ = <<>>
  /\ objects_in_threads_ = <<>>
  /\ objects = <<>>
  /\ connections = {}
  /\ queue = <<>>
  /\ aborted = FALSE
  /\ single_threaded \in BOOLEAN
  /\ gen = 0
  /\ last = Call("Application")
  /\ workers = <<>>
  /\ main_queue = <<>>
  /\ trk = NoTracker

\* Availability patterns of the lifecycle specification (the first n devices
\* work) and of the probing specification (every pattern over the devices the
\* loop can reach).
LifecyclePatterns == {0..(n - 1) : n \in 0..MaxDevices}
AllPatterns == SUBSET (0..(tests - 1))

\* The pointers a caller can hand to Initialize: those of the last discovery.
ChoosablePtrs ==
  IF gen = 0 THEN {} ELSE {Ptr(gen, d) : d \in 0..(MaxDevices - 1)}

ChosenLists ==
  UNION {[1..n -> ChoosablePtrs] : n \in 0..MaxChosen}

CalibrationValues ==
  [arity : 1..(MaxChosen + 1), id : {1}]

\* A call of AvailableVideoProviders while the devices in avail work.
DoAvailableVideoProviders(avail) ==
  /\ ~aborted
  /\ gen < MaxGen
  /\ LET s == AvailableVideoProvidersOp(Cur, avail, gen + 1)
     IN  /\ Store(s)
         /\ last' = [Call("AvailableVideoProviders") EXCEPT
                       !.ok = ~s.aborted, !.steps = s.steps,
                       !.avail = avail,
                       !.found = ProbeLoop(avail, 0, 0, <<>>).found,
                       !.probed = ProbeLoop(avail, 0, 0, <<>>).probed]
  /\ gen' = gen + 1
  /\ UNCHANGED <<single_threaded, trk>>

\* A call of Initialize(chosen).
DoInitialize(chosen) ==
  /\ ~aborted
  /\ Len(objects) + 2 <= 2 * MaxPipelines
  /\ LET s == Initialize(Cur, chosen)
     IN  /\ Store(s)
         /\ last' = [Call("Initialize") EXCEPT
                       !.ok = ~s.aborted, !.steps = s.steps,
                       !.chosen = chosen]
  /\ UNCHANGED <<single_threaded, gen, trk>>

\* A call of SetCalibrationData(data) on the main thread.
DoSetCalibrationData(data) ==
  /\ ~aborted
  /\ \A o \in 1..Len(queue) : Len(queue[o]) < MaxQueue
  /\ LET s == SetCalibrationData(Cur, data)
     IN  /\ Store(s)
         /\ last' = [Call("SetCalibrationData") EXCEPT
                       !.ok = ~s.aborted, !.steps = s.steps, !.cal = data]
  /\ UNCHANGED <<single_threaded, gen, trk>>

\* The thread of object o processes the next event posted to o.
DoDeliver(o) ==
  /\ ~aborted
  /\ queue[o] # <<>>
  /\ LET s == Deliver(Cur, o)
     IN  /\ Store(s)
         /\ last' = [Call("Deliver") EXCEPT
                       !.steps = s.steps, !.sender = o,
                       !.event = Head(queue[o]).type]
  /\ UNCHANGED <<single_threaded, gen, trk>>

\* A running Controller emits its results of one frame cycle, FramesetReady
\* and PositsetReady: each signal reaches the slots connected to it at that
\* moment.
DoEmit(c) ==
  /\ ~aborted
  /\ objects[c].kind = "Controller"
  /\ objects[c].started
  /\ objects[c].life # "destroyed"
  /\ last' = [Call("EmitResults") EXCEPT
                !.sender = c,
                !.receivers = {x \in {"FramesetReady", "PositsetReady"}
                                      \X (1..Len(objects)) :
                                 <<c, x[1], x[2]>> \in connections}]
  /\ UNCHANGED <<available_providers_, arity_, controller_, converter_,
                 calibration_data_, threads_, objects_in_threads_, objects,
                 connections, queue, aborted, single_threaded, gen,
                 workers, main_queue, trk>>

Discover == \E avail \in LifecyclePatterns : DoAvailableVideoProviders(avail)
Assemble == \E chosen \in ChosenLists : DoInitialize(chosen)
Calibrate == \E data \in CalibrationValues : DoSetCalibrationData(data)
DeliverEvent == \E o \in 1..Len(objects) : DoDeliver(o)
EmitResults == \E c \in 1..Len(objects) : DoEmit(c)

Next ==
  \/ Discover
  \/ Assemble
  \/ Calibrate
  \/ DeliverEvent
  \/ EmitResults

Spec == Init /\ [][Next]_vars

\* Discovery alone, over every availability pattern.
Probe == \E avail \in AllPatterns : DoAvailableVideoProviders(avail)

ProbeNext == Probe

SpecProbe == Init /\ [][ProbeNext]_vars

(* ------------------------------------------------------------ ownership *)

Slots == {i \in 1..Len(available_providers_) :
            available_providers_[i] # NullPtr}

PoolSet == {available_providers_[i] : i \in Slots}

Controllers == {c \in 1..Len(objects) : objects[c].kind = "Controller"}

\* The places a Controller holds a provider: <<controller, index>>.
Holdings ==
  UNION {{<<c, i>> : i \in 1..Len(objects[c].providers)} : c \in Controllers}

HeldSet == {objects[h[1]].providers[h[2]] : h \in Holdings}

OwnersInPool(p) == Cardinality({i \in Slots : available_providers_[i] = p})

OwnersInControllers(p) ==
  Cardinality({h \in Holdings : objects[h[1]].providers[h[2]] = p})

HasDuplicate(seq) ==
  \E i, j \in 1..Len(seq) : i # j /\ seq[i] = seq[j]

\* C1: every provider has at most one owner: a slot of the available pool
\* or one place in one Controller, never two of them, whatever lists
\* Initialize is given (a list naming a provider twice included).
C1_SingleOwner ==
  \A p \in PoolSet \cup HeldSet :
    OwnersInPool(p) + OwnersInControllers(p) <= 1

\* Initialize was given a list naming a provider twice; its first mention was
\* released from its slot.
C1_Witness ==
  /\ last.op = "Initialize"
  /\ HasDuplicate(last.chosen)
  /\ \E i \in 1..Len(available_providers_) :
       available_providers_[i] = NullPtr

\* The step is a call of op that returned.
Returned(op) == last'.op = op /\ last'.ok

\* C2 as claimed: Initialize(chosen) removes from the pool exactly the chosen
\* providers; a provider outside chosen stays in the pool.
C2_RemovesExactlyChosen ==
  [][Returned("Initialize") =>
       \A p \in PoolSet :
         IF \E i \in 1..Len(last'.chosen) : last'.chosen[i] = p
         THEN p \notin PoolSet'
         ELSE p \in PoolSet']_vars

\* C2 amended: Initialize(chosen) hands the chosen providers, in order, to the
\* new Controller and empties the pool: a provider outside chosen is disposed,
\* it is neither in the pool nor owned by a Controller afterwards.
C2_ChosenMovedRestDisposed ==
  [][Returned("Initialize") =>
       /\ available_providers_' = <<>>
       /\ objects'[controller_'].providers = last'.chosen
       /\ \A p \in PoolSet :
            (\A i \in 1..Len(last'.chosen) : last'.chosen[i] # p)
              => p \notin PoolSet' \cup HeldSet']_vars

\* Initialize took one provider of a pool of two.
C2_Witness ==
  /\ last.op = "Initialize"
  /\ last.ok
  /\ Len(last.chosen) = 1
  /\ Ptr(gen, 0) \in HeldSet
  /\ Ptr(gen, 1) \notin PoolSet \cup HeldSet

(* ------------------------------------------------------------- discovery *)

FoundDevices == {last.found[i] : i \in 1..Len(last.found)}

FailuresBefore(avail, d) == Cardinality({j \in 0..(d - 1) : j \notin avail})

\* skip consecutive devices, all before d, failed.
PrecededByConsecutiveFailures(avail, d) ==
  \E i \in 0..(d - skip) : \A j \in i..(i + skip - 1) : j \notin avail

\* C3 as claimed: every working device below 2*maxArity that is not preceded
\* by maxArity consecutive failures is returned.
C3_ConsecutiveFailuresStop ==
  (last.op = "AvailableVideoProviders" /\ last.ok) =>
    \A d \in last.avail :
      (d < tests /\ ~PrecededByConsecutiveFailures(last.avail, d))
        => d \in FoundDevices

\* C3 amended: the failures add up whether consecutive or not: a working
\* device below 2*maxArity is returned exactly when fewer than maxArity
\* devices of smaller index failed, and the pool holds the returned devices
\* in increasing order.
C3_TotalFailuresStop ==
  (last.op = "AvailableVideoProviders" /\ last.ok) =>
    /\ \A d \in 0..(tests - 1) :
         d \in FoundDevices <=>
           (d \in last.avail /\ FailuresBefore(last.avail, d) < skip)
    /\ \A i, j \in 1..Len(last.found) : i < j => last.found[i] < last.found[j]
    /\ available_providers_ =
         [i \in 1..Len(last.found) |-> Ptr(gen, last.found[i])]

\* Every second device works: the fourth failure, at device 6, ends the probe
\* before the working device 7.
C3_Witness ==
  /\ last.op = "AvailableVideoProviders"
  /\ last.avail = {1, 3, 5, 7}
  /\ last.found = <<1, 3, 5>>
  /\ last.probed = 7

\* C4: discovery probes at most 2*maxArity devices and returns exactly the
\* probed devices that opened; with devices 0 and 1 working and 2..5 failing
\* it probes 0..5 and returns {0, 1}.
C4_BoundedProbe ==
  (last.op = "AvailableVideoProviders" /\ last.ok) =>
    /\ last.probed \in 1..tests
    /\ FoundDevices = {d \in 0..(last.probed - 1) : d \in last.avail}
    /\ PoolSet = {Ptr(gen, d) : d \in FoundDevices}
    /\ (last.avail \cap (0..5) = {0, 1} =>
          /\ last.probed = 6
          /\ last.found = <<0, 1>>)

\* Devices 0 and 1 work, 2..5 fail and device 6, never probed, works.
C4_Witness ==
  /\ last.op = "AvailableVideoProviders"
  /\ last.avail = {0, 1, 6}
  /\ last.probed = 6

\* C5: after AvailableVideoProviders returns there is no Controller, no
\* Converter, arity is 0 and the pool holds exactly the providers this probe
\* found: none of an earlier discovery, none a Controller holds.
C5_CleanSlate ==
  (last.op = "AvailableVideoProviders" /\ last.ok) =>
    /\ controller_ = NULL
    /\ converter_ = NULL
    /\ arity_ = 0
    /\ available_providers_ =
         [i \in 1..Len(last.found) |-> Ptr(gen, last.found[i])]
    /\ PoolSet \cap HeldSet = {}

\* A second discovery, made while a pipeline was assembled: its Controller
\* still holds its providers, waiting for its deferred destruction.
C5_Witness ==
  /\ last.op = "AvailableVideoProviders"
  /\ last.ok
  /\ gen = 2
  /\ available_providers_ # <<>>
  /\ \E c \in Controllers :
       objects[c].life = "deleteLater" /\ objects[c].providers # <<>>

(* --------------------------------------------------- assembly and start *)

\* The steps of the last call that are equal to what.
At(what) == {i \in 1..Len(last.steps) : last.steps[i] = what}

\* Every step what of the last call came before every step then, and there
\* is one.
Before(what, then) ==
  /\ At(what) # {}
  /\ \A i \in At(what), j \in At(then) : i < j

Wiring ==
  {<<"connect", "FramesetReady">>, <<"connect", "PositsetReady">>,
   <<"connect", "MarkCreated">>,
   <<"connect", "Controller::CalibrationDataReady">>,
   <<"connect", "Application::CalibrationDataReady">>,
   <<"emit", "SetupPipeline">>}

Subscribed(c, v) ==
  /\ v # NULL
  /\ <<c, "FramesetReady", v>> \in connections
  /\ <<c, "PositsetReady", v>> \in connections

\* C6: Initialize requests the Controller's start only after the five
\* subscriptions are connected and SetupPipeline is emitted, and Start itself
\* runs after the request; a started current Controller has the current
\* Converter subscribed to FramesetReady and PositsetReady, and each result it
\* emits reaches that Converter.
C6_StartAfterWiring ==
  /\ (last.op = "Initialize" /\ last.ok) =>
       /\ At(<<"invokeMethod", "Start">>) # {}
       /\ \A w \in Wiring : Before(w, <<"invokeMethod", "Start">>)
       /\ \A w \in Wiring : Before(w, <<"Controller::Start">>)
       /\ Subscribed(controller_, converter_)
  /\ (controller_ # NULL /\ objects[controller_].started) =>
       Subscribed(controller_, converter_)
  /\ (last.op = "EmitResults" /\ last.sender = controller_) =>
       {<<"FramesetReady", converter_>>, <<"PositsetReady", converter_>>}
         \subseteq last.receivers

\* The current Controller, started, emits its results.
C6_Witness ==
  /\ last.op = "EmitResults"
  /\ last.sender = controller_
  /\ objects[controller_].started

\* C7 as claimed: in both builds Start does not run inside Initialize: when
\* Initialize returns, the new Controller has not started.
C7_StartNeverInline ==
  (last.op = "Initialize" /\ last.ok) => ~objects[controller_].started

(* ----------------------------------------------------------- calibration *)

\* data was handed to Controller c: to its slot directly, or as an event at
\* the end of its queue.
Handed(c, data) ==
  IF objects[c].thread = MainThread
  THEN objects'[c].calib = data /\ queue'[c] = queue[c]
  ELSE queue'[c] = Append(queue[c], Event("SetCalibrationData", data))

\* C8: SetCalibrationData(data) on a pipeline of n providers fails its
\* assertion when data's arity is not n or when there is no Controller, and
\* then leaves the canonical copy, every Controller's copy and every queue as
\* they were; when the arity is n the canonical copy becomes data and data is
\* emitted to the Controller.
C8_CalibrationArityChecked ==
  [][last'.op = "SetCalibrationData" =>
       IF /\ controller_ # NULL
          /\ Len(objects[controller_].providers) = last'.cal.arity
       THEN /\ ~aborted'
            /\ calibration_data_' = last'.cal
            /\ <<"emit", "CalibrationDataReady">> \in
                 {last'.steps[i] : i \in 1..Len(last'.steps)}
            /\ Handed(controller_, last'.cal)
       ELSE /\ aborted'
            /\ calibration_data_' = calibration_data_
            /\ objects' = objects
            /\ queue' = queue
            /\ <<"emit", "CalibrationDataReady">> \notin
                 {last'.steps[i] : i \in 1..Len(last'.steps)}]_vars

\* Calibration data of arity 3 was refused by a pipeline of two providers.
C8_Witness ==
  /\ last.op = "SetCalibrationData"
  /\ last.cal.arity = 3
  /\ aborted
  /\ controller_ # NULL
  /\ Len(objects[controller_].providers) = 2
  /\ arity_ = 2

\* C9 as claimed: a canonical calibration that is held has the arity of the
\* pipeline that is assembled now.
C9_CalibrationMatchesPipeline ==
  calibration_data_ # NoCal =>
    /\ controller_ # NULL
    /\ calibration_data_.arity = objects[controller_].arity

\* C10 as claimed: an Initialize that fails leaves the pool, the arity, the
\* Controller and the Converter as they were before the call.
C10_AllOrNothing ==
  [][(last'.op = "Initialize" /\ ~last'.ok) =>
       /\ available_providers_' = available_providers_
       /\ arity_' = arity_
       /\ controller_' = controller_
       /\ converter_' = converter_]_vars

(***************************************************************************)
(* TemplateTracker (src/unnamed/part_000).  A cv::Mat of one channel is a  *)
(* record of its size and its pixels; pixels are black or white, and the   *)
(* set on holds the white ones as <<x, y>>.  Coordinates and radii are     *)
(* integers.                                                               *)
(***************************************************************************)

\* Side of the largest image.
MaxSize == 4

\* White pixels of an image that is searched.
MaxOn == (MaxSize + 2) \div 2

\* Radius of a template that is searched for.
MaxRadius == MaxSize \div 2

Min(a, b) == IF a <= b THEN a ELSE b
Max(a, b) == IF a >= b THEN a ELSE b

Mat(cols, rows, on) == [cols |-> cols, rows |-> rows, on |-> on]

\* Mark of type kCircle.
Mark(x, y, radius) == [type |-> "circle", x |-> x, y |-> y, radius |-> radius]

\* cv::Rect(x, y, width, height)
Rect(x, y, width, height) ==
  [x |-> x, y |-> y, width |-> width, height |-> height]

\* cv::Mat::operator()(const Rect &roi): the pixels of m inside roi, with
\* roi's corner as the new origin.
Crop(m, roi) ==
  Mat(roi.width, roi.height,
      {<<p[1] - roi.x, p[2] - roi.y>> :
         p \in {q \in m.on : /\ roi.x <= q[1] /\ q[1] < roi.x + roi.width
                             /\ roi.y <= q[2] /\ q[2] < roi.y + roi.height}})

\* TemplateData before any InitTrackerData.
NoTemplate == [search_template |-> Mat(0, 0, {}), radius |-> 0]

InitTrackerData_Inclusive(data_, data, mark) ==
  LET point == mark
      radius == mark.radius
  IN  IF \/ point.x < radius \/ point.x > data.cols - radius
         \/ point.y < radius \/ point.y > data.rows - radius
      THEN [ok |-> FALSE, data_ |-> data_]
      ELSE [ok |-> TRUE,
            data_ |-> [search_template |->
                         Crop(data, Rect(point.x - radius, point.y - radius,
                                         2 * radius, 2 * radius)),
                       radius |-> radius]]

\* TemplateTracker::InitTrackerData(data, mark): the value returned and the
\* tracker's data_ afterwards.
InitTrackerData(data_, data, mark) ==
  LET point == mark
      radius == mark.radius
  IN  IF \/ point.x < radius \/ point.x >= data.cols - radius
         \/ point.y < radius \/ point.y >= data.rows - radius
      THEN [ok |-> FALSE, data_ |-> data_]
      ELSE [ok |-> TRUE,
            data_ |-> [search_template |->
                         Crop(data, Rect(point.x - radius, point.y - radius,
                                         2 * radius, 2 * radius)),
                       radius |-> radius]]

\* The variables of the Application, which the tracker does not touch.
app_vars == <<available_providers_, arity_, controller_, converter_,
              calibration_data_, threads_, objects_in_threads_, objects,
              connections, queue, aborted, single_threaded, gen, last,
              workers, main_queue>>

\* No region, no mask, no result.
NoRoi == [none |-> TRUE]
NoMask == [none |-> TRUE]
NoMark == [type |-> "invalid"]

\* A fresh tracker and the arguments of the calls to come: the image and the
\* mark for InitTrackerData, the region, mask and threshold for Search on
\* the same image.
Inputs(data, mark, roi, mask, threshold) ==
  [op |-> "input", data |-> data, mark |-> mark, roi |-> roi, mask |-> mask,
   threshold |-> threshold, data_ |-> NoTemplate, ok |-> FALSE,
   result |-> NoMark]

\* The call InitTrackerData(data, mark) on the fresh tracker.
DoInitTrackerData ==
  /\ trk.op = "input"
  /\ \E out \in {InitTrackerData(trk.data_, trk.data, trk.mark)} :
       trk' = [trk EXCEPT !.op = "InitTrackerData", !.ok = out.ok,
                          !.data_ = out.data_]
  /\ UNCHANGED app_vars

\* Images of cols x rows pixels with at most n white ones.
Pixels(cols, rows) == (0..(cols - 1)) \X (0..(rows - 1))
RECURSIVE UpTo(_, _)
UpTo(S, n) ==
  IF n = 0
  THEN {{}}
  ELSE UpTo(S, n - 1) \cup {s \cup {x} : s \in UpTo(S, n - 1), x \in S}
Images(cols, rows, n) ==
  {Mat(cols, rows, on) : on \in UpTo(Pixels(cols, rows), n)}

\* Inputs of the initialization specification: every size up to MaxSize with
\* at most one white pixel, marks in and around the image, and the 100 x 100
\* scenario.
InitImages ==
  UNION {Images(c, r, 1) : c \in 1..MaxSize, r \in 1..MaxSize}
InitMarks ==
  {Mark(x, y, r) : x \in (-1)..MaxSize, y \in (-1)..MaxSize, r \in 0..MaxSize}
ScenarioImage == Mat(100, 100, {})
ScenarioMarks == {Mark(5, 5, 10), Mark(50, 50, 10)}

InitMarkInputs ==
  \/ \E data \in InitImages, mark \in InitMarks :
       trk = Inputs(data, mark, NoRoi, NoMask, 0)
  \/ \E mark \in ScenarioMarks :
       trk = Inputs(ScenarioImage, mark, NoRoi, NoMask, 0)

\* The state of the Application while a tracker is exercised on its own.
AppIdle ==
  /\ available_providers_ = <<>>
  /\ arity_ = 0
  /\ controller_ = NULL
  /\ converter_ = NULL
  /\ calibration_data_ = NoCal
  /\ threads_ = <<>>
  /\ objects_in_threads_ = <<>>
  /\ objects = <<>>
  /\ connections = {}
  /\ queue = <<>>
  /\ aborted = FALSE
  /\ single_threaded = FALSE
  /\ gen = 0
  /\ last = Call("Application")
  /\ workers = <<>>
  /\ main_queue = <<>>

InitMarkInit == AppIdle /\ InitMarkInputs

InitFromMark == DoInitTrackerData

InitMarkNext == InitFromMark

SpecInitMark == InitMarkInit /\ [][InitMarkNext]_vars

(* ------------------------------------------------- initialization bound *)

Min4(a, b, c, d) == Min(Min(a, b), Min(c, d))

\* C11: for an integer center (x, y) and radius r >= 0 in an image of
\* w x h pixels, InitTrackerData succeeds exactly when
\* r <= min(x, y, w - 1 - x, h - 1 - y); the mark (5, 5) of radius 10 in a
\* 100 x 100 image is refused.
C11_InitIffInside ==
  trk.op = "InitTrackerData" =>
    /\ trk.ok <=> trk.mark.radius <= Min4(trk.mark.x, trk.mark.y,
                                           trk.data.cols - 1 - trk.mark.x,
                                           trk.data.rows - 1 - trk.mark.y)
    /\ (trk.data = ScenarioImage /\ trk.mark = Mark(5, 5, 10)) => ~trk.ok

\* The mark (50, 50) of radius 10 in the 100 x 100 image is accepted, and
\* the template is the 20 x 20 patch.
C11_Witness ==
  /\ trk.op = "InitTrackerData"
  /\ trk.data = ScenarioImage
  /\ trk.mark = Mark(50, 50, 10)
  /\ trk.ok
  /\ trk.data_.search_template.cols = 20
  /\ trk.data_.radius = 10

(***************************************************************************)
(* TemplateTracker::Search.  Scores of matchTemplate are kept exactly, as  *)
(* the signed square num / den of the correlation coefficient, so that the *)
(* order of two scores is exact; the confidence compared with the          *)
(* threshold is in hundredths, each score rounded toward zero.             *)
(***************************************************************************)

\* Hundredths.
Scale == 100

Point(x, y) == [x |-> x, y |-> y]

\* TemplateData::TopLeft(point) and TemplateData::BottomRight(point): the
\* corners of the template placed with its center on point.
TopLeft(tpl, point) == Point(point.x - tpl.radius, point.y - tpl.radius)
BottomRight(tpl, point) == Point(point.x + tpl.radius, point.y + tpl.radius)

\* cv::Rect(pt1, pt2)
RectOfPoints(pt1, pt2) ==
  Rect(Min(pt1.x, pt2.x), Min(pt1.y, pt2.y),
       Max(pt1.x, pt2.x) - Min(pt1.x, pt2.x),
       Max(pt1.y, pt2.y) - Min(pt1.y, pt2.y))

\* cv::Rect::tl() and cv::Rect::br()
Tl(r) == Point(r.x, r.y)
Br(r) == Point(r.x + r.width, r.y + r.height)

\* operator&=(cv::Rect &, const cv::Rect &)
RectAnd(a, b) ==
  LET x1 == Max(a.x, b.x)
      y1 == Max(a.y, b.y)
      width == Min(a.x + a.width, b.x + b.width) - x1
      height == Min(a.y + a.height, b.y + b.height) - y1
  IN  IF width <= 0 \/ height <= 0
      THEN Rect(0, 0, 0, 0)
      ELSE Rect(x1, y1, width, height)

\* The check cv::Mat::operator()(roi) makes before it crops.
Inside(roi, m) ==
  /\ 0 <= roi.x /\ 0 <= roi.width /\ roi.x + roi.width <= m.cols
  /\ 0 <= roi.y /\ 0 <= roi.height /\ roi.y + roi.height <= m.rows

\* Largest k in lo..hi with k * k * den <= num; lo satisfies it.
RECURSIVE Root(_, _, _, _)
Root(num, den, lo, hi) ==
  IF lo = hi
  THEN lo
  ELSE LET mid == (lo + hi + 1) \div 2
       IN  IF mid * mid * den <= num
           THEN Root(num, den, mid, hi)
           ELSE Root(num, den, lo, mid - 1)

\* A score in hundredths, rounded toward zero.
Hundredths(score) ==
  IF score.num >= 0
  THEN Root(Scale * Scale * score.num, score.den, 0, Scale)
  ELSE 0 - Root(Scale * Scale * (0 - score.num), score.den, 0, Scale)

ScoreLess(a, b) == a.num * b.den < b.num * a.den
ZeroScore == [num |-> 0, den |-> 1]

\* CV_TM_CCOEFF_NORMED at one position: the correlation coefficient of the
\* template and the patch under it, 0 where either has no variance.
Coefficient(image, templ, x, y) ==
  LET n == templ.cols * templ.rows
      patch == Crop(image, Rect(x, y, templ.cols, templ.rows))
      sT == Cardinality(templ.on)
      sI == Cardinality(patch.on)
      sTI == Cardinality(templ.on \cap patch.on)
      num == n * sTI - sT * sI
      den == (n * sT - sT * sT) * (n * sI - sI * sI)
  IN  IF den = 0
      THEN ZeroScore
      ELSE [num |-> IF num >= 0 THEN num * num ELSE 0 - num * num,
            den |-> den]

\* cv::matchTemplate(image, templ, result, CV_TM_CCOEFF_NORMED)
matchTemplate(image, templ) ==
  LET cols == image.cols - templ.cols + 1
      rows == image.rows - templ.rows + 1
  IN  [cols |-> cols, rows |-> rows,
       val |-> [p \in Pixels(cols, rows) |->
                  Coefficient(image, templ, p[1], p[2])]]

\* Position of a cell in the row-major scan of minMaxLoc.
ScanIndex(m, p) == p[2] * m.cols + p[1]

\* The cells minMaxLoc looks at: all of them, or those the mask sets.
Selected(m, mask) ==
  IF mask = NoMask THEN Pixels(m.cols, m.rows)
  ELSE Pixels(m.cols, m.rows) \cap mask.on

minMaxLoc_LastMaximum(m, mask) ==
  LET cells == Selected(m, mask)
      first(c, d) == ScanIndex(m, c) <= ScanIndex(m, d)
      lo == CHOOSE c \in cells : \A d \in cells :
              \/ ScoreLess(m.val[c], m.val[d])
              \/ ~ScoreLess(m.val[d], m.val[c]) /\ first(c, d)
      hi == CHOOSE c \in cells : \A d \in cells :
              \/ ScoreLess(m.val[d], m.val[c])
              \/ ~ScoreLess(m.val[c], m.val[d]) /\ first(d, c)
  IN  IF cells = {}
      THEN [min_val |-> 0, max_val |-> 0,
            min_loc |-> Point(-1, -1), max_loc |-> Point(-1, -1)]
      ELSE [min_val |-> Hundredths(m.val[lo]),
            max_val |-> Hundredths(m.val[hi]),
            min_loc |-> Point(lo[1], lo[2]), max_loc |-> Point(hi[1], hi[2])]

\* cv::minMaxLoc(m, &min_val, &max_val, &min_loc, &max_loc, mask): the
\* extreme scores among the selected cells and, of equal ones, the first in
\* the scan; with no cell selected the values are 0 and the locations
\* (-1, -1).
minMaxLoc(m, mask) ==
  LET cells == Selected(m, mask)
      first(c, d) == ScanIndex(m, c) <= ScanIndex(m, d)
      lo == CHOOSE c \in cells : \A d \in cells :
              \/ ScoreLess(m.val[c], m.val[d])
              \/ ~ScoreLess(m.val[d], m.val[c]) /\ first(c, d)
      hi == CHOOSE c \in cells : \A d \in cells :
              \/ ScoreLess(m.val[d], m.val[c])
              \/ ~ScoreLess(m.val[c], m.val[d]) /\ first(c, d)
  IN  IF cells = {}
      THEN [min_val |-> 0, max_val |-> 0,
            min_loc |-> Point(-1, -1), max_loc |-> Point(-1, -1)]
      ELSE [min_val |-> Hundredths(m.val[lo]),
            max_val |-> Hundredths(m.val[hi]),
            min_loc |-> Point(lo[1], lo[2]), max_loc |-> Point(hi[1], hi[2])]

\* What Search leaves behind when it returns before the matching.
NoMatch ==
  [cols |-> 0, rows |-> 0, val |-> <<>>]
Outcome(found, how, result, extended_roi) ==
  [found |-> found, how |-> how, result |-> result,
   extended_roi |-> extended_roi, match_result |-> NoMatch,
   cropped_mask |-> NoMask, shift_rect |-> Rect(0, 0, 0, 0),
   shifted_mask |-> NoMask, value |-> 0]

ExtendedRoi_NoExtension(data, tpl, roi) ==
  LET whole == RectOfPoints(Point(0, 0), Point(data.cols, data.rows))
  IN  IF roi = NoRoi THEN whole ELSE RectAnd(roi, whole)

\* Search, lines 60-64: the region searched.
ExtendedRoi(data, tpl, roi) ==
  LET whole == RectOfPoints(Point(0, 0), Point(data.cols, data.rows))
  IN  IF roi = NoRoi
      THEN whole
      ELSE RectAnd(RectOfPoints(TopLeft(tpl, Tl(roi)),
                                BottomRight(tpl, Br(roi))), whole)

ShiftRect_NoAddOne(tpl, cropped_mask) ==
  LET mask_br == Point(cropped_mask.cols, cropped_mask.rows)
      corner == TopLeft(tpl, Point(0, 0))
      reach == BottomRight(tpl, Point(0, 0))
  IN  RectOfPoints(Point(0 - corner.x, 0 - corner.y),
                   Point(mask_br.x - reach.x, mask_br.y - reach.y))

\* Search, lines 93-100: the part of the cropped mask that lines up with the
\* scores.
ShiftRect(tpl, cropped_mask) ==
  LET mask_br == Point(cropped_mask.cols, cropped_mask.rows)
      corner == TopLeft(tpl, Point(0, 0))
      reach == BottomRight(tpl, Point(0, 0))
      shift_rect == RectOfPoints(Point(0 - corner.x, 0 - corner.y),
                                 Point(mask_br.x - reach.x,
                                       mask_br.y - reach.y))
  IN  [shift_rect EXCEPT !.width = @ + 1, !.height = @ + 1]

LowValue_Inclusive(value, threshold) == value < threshold

\* Search, line 132: the confidence does not exceed the threshold.
LowValue(value, threshold) == value <= threshold

MatchPoint_NoOffset(loc, tpl, extended_roi) ==
  Point(loc.x + extended_roi.x, loc.y + extended_roi.y)

\* Search, lines 149-151: the winning cell as a center in the whole image.
MatchPoint(loc, tpl, extended_roi) ==
  LET corner == TopLeft(tpl, Point(0, 0))
      tpl_offset == Point(0 - corner.x, 0 - corner.y)
  IN  Point(loc.x + tpl_offset.x + extended_roi.x,
            loc.y + tpl_offset.y + extended_roi.y)

\* TemplateTracker::Search(data, tpl, roi, mask, threshold, result): the
\* value returned, *result afterwards, and the intermediate matrices.
Search(data, tpl, roi, mask, threshold, result) ==
  LET extended_roi == ExtendedRoi(data, tpl, roi)
      match_result == matchTemplate(Crop(data, extended_roi),
                                    tpl.search_template)
      cropped_mask == Crop(mask, extended_roi)
      shift_rect == ShiftRect(tpl, cropped_mask)
      shifted_mask == IF mask = NoMask THEN NoMask
                      ELSE Crop(cropped_mask, shift_rect)
      mm == minMaxLoc(match_result, shifted_mask)
      value == mm.max_val - mm.min_val
      loc == mm.max_loc
      match_point == MatchPoint(loc, tpl, extended_roi)
      so_far(found, how, res) ==
        [Outcome(found, how, res, extended_roi) EXCEPT
           !.match_result = match_result,
           !.cropped_mask = IF mask = NoMask THEN NoMask ELSE cropped_mask,
           !.shift_rect = IF mask = NoMask THEN @ ELSE shift_rect,
           !.shifted_mask = shifted_mask]
  IN  IF \/ extended_roi.width < tpl.search_template.cols
         \/ extended_roi.height < tpl.search_template.rows
      THEN Outcome(FALSE, "small-roi", result, extended_roi)
      ELSE IF tpl.search_template.cols = 0 \/ tpl.search_template.rows = 0
      THEN Outcome(FALSE, "cv::Exception", result, extended_roi)
      ELSE IF mask # NoMask /\ ~Inside(extended_roi, mask)
      THEN Outcome(FALSE, "cv::Exception", result, extended_roi)
      ELSE IF mask # NoMask /\ ~Inside(shift_rect, cropped_mask)
      THEN Outcome(FALSE, "cv::Exception", result, extended_roi)
      ELSE IF mask # NoMask /\ (\/ match_result.rows # shifted_mask.rows
                                \/ match_result.cols # shifted_mask.cols)
      THEN so_far(FALSE, "assert", result)
      ELSE IF LowValue(value, threshold)
      THEN [so_far(FALSE, "low value", result) EXCEPT !.value = value]
      ELSE [so_far(TRUE, "matched",
                   Mark(match_point.x, match_point.y, tpl.radius))
              EXCEPT !.value = value]

\* The call Search(data, data_, roi, mask, threshold, &result) on the image
\* the template was taken from.
DoSearch ==
  /\ trk.op = "InitTrackerData"
  /\ trk.ok
  /\ \E out \in {Search(trk.data, trk.data_, trk.roi, trk.mask,
                         trk.threshold, trk.result)} :
       trk' = [op |-> "Search", data |-> trk.data, mark |-> trk.mark,
               roi |-> trk.roi, mask |-> trk.mask,
               threshold |-> trk.threshold, data_ |-> trk.data_,
               ok |-> out.found, result |-> out.result, how |-> out.how,
               extended_roi |-> out.extended_roi,
               match_result |-> [cols |-> out.match_result.cols,
                                 rows |-> out.match_result.rows],
               cropped_mask |-> out.cropped_mask,
               shift_rect |-> out.shift_rect,
               shifted_mask |-> out.shifted_mask, value |-> out.value]
  /\ UNCHANGED app_vars

\* Images that are searched: MaxSize columns, MaxSize - 1 rows, at most
\* MaxOn white pixels.  Marks have their center off the border.
SearchImages == Images(MaxSize, MaxSize - 1, MaxOn)
SearchMarks(data, radii) ==
  {Mark(x, y, r) : x \in 1..(data.cols - 2), y \in 1..(data.rows - 2),
                   r \in radii}

InitFromMarkStep == DoInitTrackerData
SearchStep == DoSearch

TrackerNext ==
  \/ InitFromMarkStep
  \/ SearchStep

(* ----------------------------------------------------------- round trip *)

RoundTripInit ==
  /\ AppIdle
  /\ \E data \in SearchImages :
       \E mark \in SearchMarks(data, 0..MaxRadius) :
         trk = Inputs(data, mark, NoRoi, NoMask, 0)

SpecRoundTrip == RoundTripInit /\ [][TrackerNext]_vars

\* The score of the template at the position whose center is mark.
ScoreAt(mark) ==
  Coefficient(trk.data, trk.data_.search_template,
              mark.x - trk.data_.radius, mark.y - trk.data_.radius)

\* Row-major order of centers.
Earlier(a, b) == a.y < b.y \/ (a.y = b.y /\ a.x < b.x)

\* The centers a whole-image search can return.
Centers ==
  {Mark(x, y, trk.data_.radius) :
     x \in trk.data_.radius..(trk.data.cols - trk.data_.radius),
     y \in trk.data_.radius..(trk.data.rows - trk.data_.radius)}

Uniform(m) == m.on = {} \/ m.on = Pixels(m.cols, m.rows)

RoundTripCase ==
  /\ trk.op = "Search"
  /\ trk.roi = NoRoi
  /\ trk.mask = NoMask
  /\ trk.threshold = 0

Thresholds ==
  {0 - Scale, 0, Scale \div 3, Scale, Scale + Scale \div 3, 2 * Scale}

\* The mask of an image that excludes the pixels in off and no other.
MaskWithout(data, off) ==
  Mat(data.cols, data.rows, Pixels(data.cols, data.rows) \ off)

\* Images with one white pixel fewer.
SparseImages == Images(MaxSize, MaxSize - 1, MaxOn - 1)

ThresholdInit ==
  /\ AppIdle
  /\ \E data \in SparseImages :
       \E mark \in SearchMarks(data, 1..MaxRadius) :
         \E roi \in {NoRoi, Rect(1, 0, data.cols - 2, data.rows)},
            mask \in {NoMask, MaskWithout(data, {<<mark.x, mark.y>>})},
            threshold \in Thresholds :
           trk = Inputs(data, mark, roi, mask, threshold)

SpecThreshold == ThresholdInit /\ [][TrackerNext]_vars

\* The search of the current state, with another threshold.
SearchAt(threshold) ==
  Search(trk.data, trk.data_, trk.roi, trk.mask, threshold, NoMark)

\* C13: with image, template, region and mask fixed, a search that finds a
\* mark with some threshold finds the same mark with every lower threshold,
\* and a confidence equal to the threshold is rejected.
C13_ThresholdMonotone ==
  trk.op = "Search" =>
    /\ trk.ok =>
         \A t1 \in {t \in Thresholds : t < trk.threshold} :
           LET lower == SearchAt(t1)
           IN  lower.found /\ lower.result = trk.result
    /\ (trk.how \in {"low value", "matched"} /\ trk.value = trk.threshold)
         => ~trk.ok

\* A mark found with a positive threshold under a region and a mask.
C13_Witness ==
  /\ trk.op = "Search"
  /\ trk.ok
  /\ trk.threshold >= Scale
  /\ trk.roi # NoRoi
  /\ trk.mask # NoMask
  /\ \E t2 \in Thresholds : t2 > trk.threshold /\ ~SearchAt(t2).found

(* --------------------------------------------------------------- region *)

\* Square regions of one or two pixels a side with their corner in the image.
Regions(data) ==
  {Rect(x, y, w, w) : x \in 0..(data.cols - 1), y \in 0..(data.rows - 1),
                      w \in 1..2}

RegionInit ==
  /\ AppIdle
  /\ \E data \in SparseImages :
       \E mark \in SearchMarks(data, 1..MaxRadius), roi \in Regions(data),
          threshold \in {0, Scale + Scale \div 5} :
         trk = Inputs(data, mark, roi, NoMask, threshold)

SpecRegion == RegionInit /\ [][TrackerNext]_vars

\* cv::Rect::contains
Contains(roi, p) ==
  /\ roi.x <= p.x /\ p.x < roi.x + roi.width
  /\ roi.y <= p.y /\ p.y < roi.y + roi.height

\* The search of the current state, over the whole image.
SearchWhole ==
  Search(trk.data, trk.data_, NoRoi, trk.mask, trk.threshold, NoMark)

\* The current state is a search in a region that contains the mark a
\* whole-image search finds.
RegionCase(whole) ==
  /\ trk.op = "Search"
  /\ trk.roi # NoRoi
  /\ whole.found
  /\ Contains(trk.roi, whole.result)

\* C14 as stated: if the whole-image search finds a mark, the search in any
\* region that contains its center finds the same mark.
C14_RegionFindsSame ==
  LET whole == SearchWhole
  IN  RegionCase(whole) => trk.ok /\ trk.result = whole.result

\* C14, amended: the search in such a region either finds the same mark or
\* finds nothing; it finds nothing exactly when the confidence taken over
\* the region's own scores, which is never above that of the whole image,
\* does not exceed the threshold.
C14_RegionSameOrNone ==
  LET whole == SearchWhole
  IN  RegionCase(whole) =>
        /\ trk.how \in {"matched", "low value"}
        /\ trk.value <= whole.value
        /\ trk.ok <=> trk.value > trk.threshold
        /\ trk.ok => trk.result = whole.result

\* A region smaller than the image in which the same mark is found.
C14_Witness ==
  /\ RegionCase(SearchWhole)
  /\ trk.ok
  /\ trk.result = SearchWhole.result
  /\ trk.extended_roi.width < trk.data.cols

(* ----------------------------------------------------------------- mask *)

\* Image-sized masks: every cell set, no cell set, all but one cell set.
Masks(data) ==
  {MaskWithout(data, {}), MaskWithout(data, Pixels(data.cols, data.rows))}
    \cup {MaskWithout(data, {p}) : p \in Pixels(data.cols, data.rows)}

MaskInit ==
  /\ AppIdle
  /\ \E data \in SparseImages :
       \E mark \in SearchMarks(data, 1..MaxRadius), mask \in Masks(data),
          roi \in {NoRoi, Rect(1, 0, 2, 2)}, threshold \in {0 - Scale, 0} :
         trk = Inputs(data, mark, roi, mask, threshold)

SpecMask == MaskInit /\ [][TrackerNext]_vars

\* The centers whose window lies in the searched region and which the mask
\* does not exclude.
Unmasked ==
  {c \in Centers :
     /\ trk.extended_roi.x <= c.x - c.radius
     /\ c.x + c.radius <= trk.extended_roi.x + trk.extended_roi.width
     /\ trk.extended_roi.y <= c.y - c.radius
     /\ c.y + c.radius <= trk.extended_roi.y + trk.extended_roi.height
     /\ <<c.x, c.y>> \in trk.mask.on}

\* C15: a search with a mask never returns a mark whose center the mask
\* excludes, also when the mask sets no cell; a mark it returns is centered
\* on the best-scoring unmasked position.
C15_NeverMasked ==
  (trk.op = "Search" /\ trk.mask # NoMask /\ trk.ok) =>
    /\ <<trk.result.x, trk.result.y>> \in trk.mask.on
    /\ trk.result \in Unmasked
    /\ \A c \in Unmasked : ~ScoreLess(ScoreAt(trk.result), ScoreAt(c))

\* The same for thresholds that are not negative.
MaskedFromZero ==
  trk.threshold >= 0 => C15_NeverMasked

\* A mask excludes the best position and the search returns another one.
MaskedElsewhere ==
  /\ trk.op = "Search"
  /\ trk.mask # NoMask
  /\ trk.ok
  /\ trk.threshold = 0
  /\ \E c \in Centers : ScoreLess(ScoreAt(trk.result), ScoreAt(c))

(* ------------------------------------------------------- mask alignment *)

\* Blank images of the two largest sizes each way, regions of up to two
\* pixels a side that start inside the image or just off it, and the masks
\* with every cell and with no cell set.
BlankImages ==
  {Mat(cols, rows, {}) : cols \in {MaxSize - 1, MaxSize},
                         rows \in {MaxSize - 1, MaxSize}}
AnyRegions(data) ==
  {Rect(x, y, w, h) : x \in (-1)..(data.cols - 1), y \in (-1)..(data.rows - 1),
                      w \in 0..2, h \in 0..2}

AlignInit ==
  /\ AppIdle
  /\ \E data \in BlankImages :
       \E mark \in SearchMarks(data, 1..MaxRadius),
          roi \in {NoRoi} \cup AnyRegions(data),
          mask \in {MaskWithout(data, {}),
                    MaskWithout(data, Pixels(data.cols, data.rows))} :
         trk = Inputs(data, mark, roi, mask, 0)

SpecAlign == AlignInit /\ [][TrackerNext]_vars

\* A search with a mask that got past the small-region test.
AlignCase ==
  /\ trk.op = "Search"
  /\ trk.mask # NoMask
  /\ trk.data_.radius >= 1
  /\ trk.how # "small-roi"

\* C18: for a template of radius r >= 1 and an image-sized mask, with or
\* without a region, a search that passes the small-region test has a score
\* map of the size of the extended region less the template plus one, a
\* shift rectangle inside the cropped mask, and a shifted mask of exactly the
\* score map's rows and columns, so neither assertion fails.
C18_MaskAligned ==
  AlignCase =>
    /\ trk.how \in {"matched", "low value"}
    /\ trk.match_result.cols =
         trk.extended_roi.width - trk.data_.search_template.cols + 1
    /\ trk.match_result.rows =
         trk.extended_roi.height - trk.data_.search_template.rows + 1
    /\ trk.cropped_mask.cols = trk.extended_roi.width
    /\ trk.cropped_mask.rows = trk.extended_roi.height
    /\ Inside(trk.shift_rect, trk.cropped_mask)
    /\ trk.shifted_mask.cols = trk.match_result.cols
    /\ trk.shifted_mask.rows = trk.match_result.rows

\* A region that the image border clips, searched with a mask.
C18_Witness ==
  /\ AlignCase
  /\ trk.roi # NoRoi
  /\ trk.extended_roi.width < trk.roi.width + 2 * trk.data_.radius
  /\ trk.extended_roi.width < trk.data.cols
  /\ trk.match_result.cols >= 2

(* ---------------------------------------------------------- replacement *)

\* Initialize never meets a pipeline object to replace: it marks nothing for
\* deferred destruction, because the discovery that filled the pool tore the
\* pipeline down, and a call that finds a Controller finds an empty pool and
\* stops at an assertion before it constructs anything.
AssemblyMarksNothing ==
  last.op = "Initialize" =>
    \A i \in 1..Len(last.steps) : last.steps[i][1] # "deleteLater"
AssemblyFindsNoPipeline ==
  [][(last'.op = "Initialize" /\ last'.ok)
       => (controller_ = NULL /\ converter_ = NULL)]_vars

(***************************************************************************)
(* Application::~Application.  The destructor runs on the main thread;     *)
(* wait() returns once the worker's event loop has exited, and a worker    *)
(* that exits disposes of the objects living on it whose deferred          *)
(* deletion is pending.  An entry of objects_in_threads_ whose object is   *)
(* already destroyed is a dangling pointer: deleteLater() on it either     *)
(* crashes or goes unnoticed.                                              *)
(***************************************************************************)

\* for (auto object : objects_in_threads_) object->deleteLater();
RECURSIVE MarkAll(_, _, _)
MarkAll(s, i, crash) ==
  IF i > Len(s.objects_in_threads_)
  THEN s
  ELSE LET o == s.objects_in_threads_[i]
       IN  IF s.objects[o].life = "destroyed" /\ crash
           THEN AssertFailed(s, <<"deleteLater", "dangling">>)
           ELSE MarkAll(DeleteLater(s, o), i + 1, crash)

\* for (auto thread : threads_) thread->quit();
RECURSIVE QuitAll(_, _)
QuitAll(s, i) ==
  IF i > Len(s.threads_)
  THEN s
  ELSE LET t == s.threads_[i]
       IN  QuitAll([Step(s, <<"quit", t>>) EXCEPT
                      !.workers[t] = IF @ = "running" THEN "quitting" ELSE @],
                   i + 1)

\* The worker t leaves its event loop: the deferred deletions pending on it
\* are carried out, its other events are dropped.
RECURSIVE Finish(_, _, _)
Finish(s, t, o) ==
  IF o > Len(s.objects)
  THEN [Step(s, <<"finished", t>>) EXCEPT !.workers[t] = "finished"]
  ELSE IF s.objects[o].thread = t /\ s.objects[o].life = "deleteLater"
       THEN Finish(Destroy(s, o), t, o + 1)
       ELSE Finish(s, t, o + 1)

\* for (auto thread : threads_) thread->wait();
RECURSIVE WaitAll(_, _)
WaitAll(s, i) ==
  IF i > Len(s.threads_)
  THEN s
  ELSE LET t == s.threads_[i]
           s1 == Step(s, <<"wait", t>>)
       IN  WaitAll(IF s.workers[t] = "quitting" THEN Finish(s1, t, 1) ELSE s1,
                   i + 1)

Destructor_QuitFirst(s, crash) ==
  LET s1 == QuitAll(s, 1)
      s2 == MarkAll(s1, 1, crash)
  IN  IF s2.aborted THEN s2 ELSE WaitAll(s2, 1)

\* Application::~Application
Destructor(s, crash) ==
  LET s1 == MarkAll(s, 1, crash)
  IN  IF s1.aborted THEN s1 ELSE WaitAll(QuitAll(s1, 1), 1)

\* The Application still exists.
Running == last.op # "~Application"

\* The Application is destroyed.
DoDestructor(crash) ==
  /\ ~aborted
  /\ Running
  /\ crash => \E i \in 1..Len(objects_in_threads_) :
                objects[objects_in_threads_[i]].life = "destroyed"
  /\ \E s \in {Destructor(Cur, crash)} :
       /\ Store(s)
       /\ last' = [Call("~Application") EXCEPT
                     !.ok = ~s.aborted, !.steps = s.steps]
  /\ UNCHANGED <<single_threaded, gen, trk>>

Shutdown == \E crash \in BOOLEAN : DoDestructor(crash)

ShutdownNext ==
  \/ Running /\ Discover
  \/ Running /\ Assemble
  \/ Running /\ DeliverEvent
  \/ Shutdown

SpecShutdown == Init /\ [][ShutdownNext]_vars

(* ------------------------------------------------------------- shutdown *)

\* Positions of the steps of one kind in the last call.
StepsOf(kind) == {i \in 1..Len(last.steps) : last.steps[i][1] = kind}

\* C17: the destructor marks every thread-bound object for deferred
\* destruction before it asks any worker to stop, asks every worker to stop
\* before it joins any, and joins no worker it has not asked to stop; an
\* object is destroyed only by its worker, while the destructor waits for
\* that worker, never by the destructor itself.
C17_ShutdownOrder ==
  last.op = "~Application" =>
    /\ \A i \in StepsOf("deleteLater"), j \in StepsOf("quit") : i < j
    /\ \A i \in StepsOf("quit"), j \in StepsOf("wait") : i < j
    /\ \A j \in StepsOf("wait") :
         \E i \in StepsOf("quit") :
           i < j /\ last.steps[i][2] = last.steps[j][2]
    /\ \A d \in StepsOf("delete") :
         \E w \in StepsOf("wait"), f \in StepsOf("finished") :
           /\ w < d /\ d < f
           /\ last.steps[w][2] = last.steps[f][2]
           /\ \A g \in StepsOf("finished") : g < w \/ g >= f
    /\ last.ok =>
         /\ Cardinality(StepsOf("deleteLater")) = Len(objects_in_threads_)
         /\ Cardinality(StepsOf("quit")) = Len(threads_)
         /\ Cardinality(StepsOf("wait")) = Len(threads_)
         /\ \A i \in 1..Len(threads_) : workers[threads_[i]] = "finished"
         /\ \A i \in 1..Len(objects_in_threads_) :
              objects[objects_in_threads_[i]].life = "destroyed"

\* The destructor of an Application whose Controller and Converter run on
\* their workers: both are marked, both workers stopped and joined.
C17_Witness ==
  /\ last.op = "~Application"
  /\ last.ok
  /\ Len(threads_) = 2
  /\ Cardinality(StepsOf("delete")) = 2
  /\ controller_ # NULL

(***************************************************************************)
(* Calibration results of the Controller.  The Controller forwards a       *)
(* result of its calibration unchanged through its signal                  *)
(* CalibrationDataReady, which SetupController connects to                 *)
(* Application::SetCalibrationData: a direct call when the Controller      *)
(* lives on the main thread, an event posted to the Application otherwise. *)
(***************************************************************************)

\* Events pending for one receiver while calibration data travels.
CalibQueue == MaxQueue + 1

\* The results a Controller can emit: of its own arity, and different from
\* the values handed to SetCalibrationData directly.
ControllerResults(c) ==
  [arity : {objects[c].arity}, id : 2..(MaxQueue + 1)]

\* emit Controller::CalibrationDataReady(data) on the Controller's thread.
ControllerCalibrationDataReady(s, c, data) ==
  LET s1 == Step(s, <<"emit", "Controller::CalibrationDataReady">>)
  IN  IF <<c, "Controller::CalibrationDataReady", App>> \notin s.connections
      THEN s1
      ELSE IF s.objects[c].thread = MainThread
      THEN SetCalibrationData(s1, data)
      ELSE [s1 EXCEPT
              !.main_queue = Append(@, Event("SetCalibrationData", data))]

\* A running Controller emits the calibration result data.
DoControllerCalibration(c, data) ==
  /\ ~aborted
  /\ objects[c].kind = "Controller"
  /\ objects[c].started
  /\ objects[c].life = "alive"
  /\ Len(main_queue) < CalibQueue
  /\ \A o \in 1..Len(queue) : Len(queue[o]) < CalibQueue
  /\ \E s \in {ControllerCalibrationDataReady(Cur, c, data)} :
       /\ Store(s)
       /\ last' = [Call("ControllerCalibration") EXCEPT
                     !.ok = ~s.aborted, !.steps = s.steps, !.cal = data,
                     !.sender = c]
  /\ UNCHANGED <<single_threaded, gen, trk>>

\* The main thread processes the next event posted to the Application.
DoDeliverMain ==
  /\ ~aborted
  /\ main_queue # <<>>
  /\ \A o \in 1..Len(queue) : Len(queue[o]) < CalibQueue
  /\ \E s \in {SetCalibrationData([Cur EXCEPT !.main_queue = Tail(@)],
                                  Head(main_queue).cal)} :
       /\ Store(s)
       /\ last' = [Call("DeliverMain") EXCEPT
                     !.ok = ~s.aborted, !.steps = s.steps,
                     !.cal = Head(main_queue).cal,
                     !.event = Head(main_queue).type]
  /\ UNCHANGED <<single_threaded, gen, trk>>

ControllerCalibrates ==
  \E c \in 1..Len(objects) :
    \E data \in ControllerResults(c) : DoControllerCalibration(c, data)
DeliverMain == DoDeliverMain

\* One discovery and one assembly, then calibration data on the topology
\* they leave.
FirstDiscovery == gen = 0 /\ Discover

CalibNext ==
  \/ FirstDiscovery
  \/ Assemble
  \/ Calibrate
  \/ ControllerCalibrates
  \/ DeliverEvent
  \/ DeliverMain

SpecCalib == Init /\ [][CalibNext]_vars

\* The calibration values waiting in the queue of object o.
PendingCalibration(o) ==
  {i \in 1..Len(queue[o]) : queue[o][i].type = "SetCalibrationData"}

\* No calibration value is in flight to the Application or to the Controller.
CalibrationDelivered ==
  /\ main_queue = <<>>
  /\ PendingCalibration(controller_) = {}

Converged ==
  (~aborted /\ controller_ # NULL /\ CalibrationDelivered)
    => objects[controller_].calib = calibration_data_

\* What reaches Controller c in one step: a new event in its queue carries the
\* canonical copy of the same step, a value it takes over directly is that
\* copy, and a value it takes from its queue is the oldest one waiting.
ReceivesCanonical(c) ==
  /\ Len(queue'[c]) > Len(queue[c])
       => /\ queue'[c] = Append(queue[c], queue'[c][Len(queue'[c])])
          /\ queue'[c][Len(queue'[c])].type = "SetCalibrationData"
               => queue'[c][Len(queue'[c])].cal = calibration_data_'
  /\ objects'[c].calib # objects[c].calib
       => \/ /\ last'.op # "Deliver"
             /\ objects'[c].calib = calibration_data_'
          \/ /\ last'.op = "Deliver"
             /\ queue[c] # <<>>
             /\ Head(queue[c]).type = "SetCalibrationData"
             /\ objects'[c].calib = Head(queue[c]).cal
             /\ queue'[c] = Tail(queue[c])

ControllerReceivesCanonical ==
  \A c \in 1..Len(objects) :
    (c <= Len(objects') /\ objects[c].kind = "Controller"
       /\ objects'[c].kind = "Controller")
      => ReceivesCanonical(c)

RECURSIVE Selection(_, _, _)
Selection(pool, chosen, i) ==
  IF i > Len(pool) THEN <<>>
  ELSE IF i \in chosen
       THEN <<pool[i]>> \o Selection(pool, chosen, i + 1)
       ELSE Selection(pool, chosen, i + 1)

FirstProbe == gen = 0 /\ Probe

AssembleFound ==
  \E chosen \in SUBSET Slots :
    DoInitialize(Selection(available_providers_, chosen, 1))

ArityNext ==
  \/ FirstProbe
  \/ AssembleFound

SpecArity == Init /\ [][ArityNext]_vars

\* C20: after discovery and Initialize on any selection of the providers
\* found, the arity of the pipeline is at most kMaxArity, the pool never
\* holds more than kMaxArity providers and no Controller is given more.
C20_ArityBound ==
  /\ arity_ <= kMaxArity
  /\ Len(available_providers_) <= kMaxArity
  /\ \A c \in Controllers : Len(objects[c].providers) <= kMaxArity

\* The part of the bound that does hold: the pool and the arity never exceed
\* the number of devices probed.
ArityWithinTests ==
  /\ arity_ <= tests
  /\ Len(available_providers_) <= tests
  /\ \A c \in Controllers : Len(objects[c].providers) <= tests

\* Every probed device works and the pipeline is assembled from all of them.
ArityOfAllProbed ==
  /\ ~aborted
  /\ last.op = "Initialize"
  /\ controller_ # NULL
  /\ arity_ = tests
  /\ Len(objects[controller_].providers) = tests
====
